---- MODULE Spec2Model ----
(***************************************************************************)
(* Model of the asset registry: Registry::write / Registry::load           *)
(* (src/registry.rs), Asset::verify and its stages (src/asset.rs) and the  *)
(* domain link check (src/entity.rs).                                      *)
(*                                                                         *)
(* Strings the code inspects (name, ticker, domain, issuer_pubkey) are     *)
(* sequences of code points.  Option<T> is a sequence of length 0 (None)   *)
(* or 1 (Some).                                                            *)
(***************************************************************************)
EXTENDS Integers, Sequences, FiniteSets, TLC

None == << >>
Some(x) == << x >>
IsSome(o) == Len(o) = 1
Unwrap(o) == o[1]

(***************************************************************************)
(* Bounds of the model.                                                    *)
(***************************************************************************)
\* number of write calls the threads make in one behaviour
MaxWrites == 2

\* the threads that call into the one Registry
Threads == {1, 2}

(***************************************************************************)
(* Text helpers.                                                           *)
(***************************************************************************)
RECURSIVE Concat(_)
Concat(ss) == IF ss = << >> THEN << >> ELSE Head(ss) \o Concat(Tail(ss))

Reverse(s) == [i \in 1..Len(s) |-> s[Len(s) + 1 - i]]

IsWhitespace(c) == c \in {9, 10, 11, 12, 13, 32}

\* str::trim_end: drops trailing whitespace only
RECURSIVE trim_end(_)
trim_end(s) ==
    IF s # << >> /\ IsWhitespace(s[Len(s)])
    THEN trim_end(SubSeq(s, 1, Len(s) - 1))
    ELSE s

\* the lower-case hex digits, as code points
HexDigits == <<48, 49, 50, 51, 52, 53, 54, 55, 56, 57, 97, 98, 99, 100, 101, 102>>

HexByte(b) == <<HexDigits[(b \div 16) + 1], HexDigits[(b % 16) + 1]>>

\* AssetId::to_hex / Display: the bytes in reverse order, two digits each
to_hex(id) == Concat([i \in 1..Len(id) |-> HexByte(Reverse(id)[i])])

\* str::ends_with
ends_with(s, suffix) ==
    /\ Len(s) >= Len(suffix)
    /\ SubSeq(s, Len(s) - Len(suffix) + 1, Len(s)) = suffix

S_json == <<46, 106, 115, 111, 110>>                \* ".json"
S_onion == <<46, 111, 110, 105, 111, 110>>          \* ".onion"

(***************************************************************************)
(* The asset ids of the model (two bytes instead of 32).  In hex:          *)
(* aa01, aa02 (same partition directory) and bb01.                         *)
(***************************************************************************)
AssetIdList == << <<1, 170>>, <<2, 170>>, <<1, 187>> >>
AssetIds == {AssetIdList[i] : i \in 1..Len(AssetIdList)}

(***************************************************************************)
(* src/registry.rs: storage layout                                         *)
(***************************************************************************)
DIR_PARTITION_LEN == 2

\* a file name made of the partition prefix only
FileNameOfPartition(id) == SubSeq(to_hex(id), 1, DIR_PARTITION_LEN) \o S_json
\* format!("{}.json", asset_id.to_hex())
FileName(id) == to_hex(id) \o S_json
\* self.directory.join(&name[0..DIR_PARTITION_LEN])
SubDir(id) == SubSeq(FileName(id), 1, DIR_PARTITION_LEN)
\* subdir.join(name), relative to the registry directory
PathOf(id) == <<SubDir(id), FileName(id)>>

Paths == {PathOf(id) : id \in AssetIds}

(***************************************************************************)
(* src/asset.rs: the record and its checks                                 *)
(***************************************************************************)
S_FooToken == <<70, 111, 111>>                      \* "Foo"
S_BadName == <<70, 246>>                            \* "F\u{f6}", not ASCII
S_FOO == <<70, 79, 79>>                             \* "FOO"
S_FO == <<70, 79>>                                  \* "FO"
S_test_dev == <<116, 46, 100, 101, 118>>            \* "t.dev"
S_x_onion == <<120>> \o S_onion                     \* "x.onion"
S_bad_domain == <<116, 46, 46, 100>>                \* "t..d", empty label
S_pubkey == <<48, 50, 97, 98>>                      \* "02ab"
S_bad_key == <<48, 53, 97, 98>>                     \* "05ab", no key prefix

\* RE_NAME: ^[[:ascii:]]{1,255}$
RE_NAME_is_match(s) ==
    /\ Len(s) >= 1 /\ Len(s) <= 255
    /\ \A i \in 1..Len(s) : s[i] <= 127

\* the character class of RE_TICKER: [a-zA-Z.\-]
TickerCharOrDigit(c) ==
    (c >= 97 /\ c <= 122) \/ (c >= 65 /\ c <= 90) \/ c = 46 \/ c = 45 \/ (c >= 48 /\ c <= 57)
TickerChar(c) == (c >= 97 /\ c <= 122) \/ (c >= 65 /\ c <= 90) \/ c = 46 \/ c = 45

\* RE_TICKER: ^[a-zA-Z.\-]{3,5}$
RE_TICKER_is_match(s) ==
    /\ Len(s) >= 3 /\ Len(s) <= 5
    /\ \A i \in 1..Len(s) : TickerChar(s[i])

IsHexChar(c) == (c >= 48 /\ c <= 57) \/ (c >= 97 /\ c <= 102) \/ (c >= 65 /\ c <= 70)

\* Asset::issuer_pubkey: contract["issuer_pubkey"].as_str() and hex::decode
issuer_pubkey_ok(contract) ==
    /\ IsSome(contract.issuer_pubkey)
    /\ Len(Unwrap(contract.issuer_pubkey)) % 2 = 0
    /\ \A i \in 1..Len(Unwrap(contract.issuer_pubkey)) :
          IsHexChar(Unwrap(contract.issuer_pubkey)[i])

\* util::verify_pubkey on the decoded key: a compressed-key prefix byte
\* (02 or 03) followed by the key bytes (one byte in the model)
verify_pubkey(hex) ==
    /\ Len(hex) = 4
    /\ hex[1] = 48 /\ hex[2] \in {50, 51}

DomainChar(c) == (c >= 97 /\ c <= 122) \/ (c >= 48 /\ c <= 57) \/ c = 45

\* util::verify_domain_name: non-empty, dot-separated non-empty labels
verify_domain_name(d) ==
    /\ Len(d) >= 1
    /\ \A i \in 1..Len(d) : DomainChar(d[i]) \/ d[i] = 46
    /\ d[1] # 46 /\ d[Len(d)] # 46
    /\ \A i \in 1..(Len(d) - 1) : ~(d[i] = 46 /\ d[i + 1] = 46)

\* AssetFields::from_contract: the issuer fields parsed from the contract
from_contract(contract) ==
    [name |-> contract.name, ticker |-> contract.ticker,
     precision |-> contract.precision, entity |-> contract.entity]

\* serde_json::to_string(contract): keys in lexicographic order, each value
\* after a separator byte (0); a null ticker is the byte 1
ContractBytes(contract) ==
    <<0>> \o contract.entity
    \o <<0>> \o (IF IsSome(contract.issuer_pubkey) THEN Unwrap(contract.issuer_pubkey) ELSE <<1>>)
    \o <<0>> \o contract.name
    \o <<0, 48 + contract.precision>>
    \o <<0>> \o (IF IsSome(contract.ticker) THEN Unwrap(contract.ticker) ELSE <<1>>)
    \o <<0, 48 + contract.version>>

\* sha256::Hash::hash, as a polynomial hash into 0..250: the hash of the
\* first n bytes, and the hash of all of them
RECURSIVE sha256_update(_, _)
sha256_update(bytes, n) ==
    IF n = 0 THEN 7
    ELSE (sha256_update(bytes, n - 1) * 31 + bytes[n]) % 251

sha256(bytes) == sha256_update(bytes, Len(bytes))

\* contract_json_hash
contract_json_hash(contract) == sha256(ContractBytes(contract))

\* AssetId::generate_asset_entropy(prevout, contract_hash)
generate_asset_entropy(prevout, contract_hash) ==
    (prevout * 97 + contract_hash * 5 + 3) % 251

\* AssetId::from_entropy
from_entropy(entropy) == AssetIdList[(entropy % Len(AssetIdList)) + 1]

\* verify_asset_commitment
verify_asset_commitment_ignoring_prevout(asset) ==
    asset.asset_id =
        from_entropy(generate_asset_entropy(0, contract_json_hash(asset.contract)))
verify_asset_commitment(asset) ==
    asset.asset_id =
        from_entropy(generate_asset_entropy(asset.issuance_prevout,
                                            contract_json_hash(asset.contract)))

\* verify_asset_fields: "ok" or the error
verify_asset_fields_signed(asset) ==
    IF IsSome(asset.signature) \/ asset.fields = from_contract(asset.contract) THEN "ok"
    ELSE "fields mismatch commitment"
verify_asset_fields(asset) ==
    IF IsSome(asset.signature) THEN "updates are disabled"
    ELSE IF asset.fields = from_contract(asset.contract) THEN "ok"
    ELSE "fields mismatch commitment"

\* the checks of Asset::verify that need no collaborator, in program order
VerifyChecksCommitmentFirst ==
    <<"commitment", "version", "precision", "name", "ticker", "issuer_pubkey",
      "domain_name", "fields">>
VerifyChecks ==
    <<"version", "precision", "name", "ticker", "issuer_pubkey",
      "domain_name", "commitment", "fields">>

\* one check of Asset::verify: "ok" or the error it raises
Check(c, asset) ==
    CASE c = "version" ->
           IF asset.contract.version = 0 THEN "ok" ELSE "unknown version"
      [] c = "precision" ->
           IF asset.fields.precision <= 8 THEN "ok" ELSE "precision out of range"
      [] c = "name" ->
           IF RE_NAME_is_match(asset.fields.name) THEN "ok" ELSE "invalid name"
      [] c = "ticker" ->
           IF IsSome(asset.fields.ticker) /\ ~RE_TICKER_is_match(Unwrap(asset.fields.ticker))
           THEN "invalid ticker" ELSE "ok"
      [] c = "issuer_pubkey" ->
           IF ~IsSome(asset.contract.issuer_pubkey) THEN "missing issuer_pubkey"
           ELSE IF ~issuer_pubkey_ok(asset.contract) THEN "invalid issuer_pubkey hex"
           ELSE IF ~verify_pubkey(Unwrap(asset.contract.issuer_pubkey))
                THEN "invalid issuer public key" ELSE "ok"
      [] c = "domain_name" ->
           IF verify_domain_name(asset.fields.entity) THEN "ok" ELSE "invalid domain name"
      [] c = "commitment" ->
           IF verify_asset_commitment(asset) THEN "ok"
           ELSE "failed verifying issuance commitment"
      [] c = "fields" ->
           IF verify_asset_fields(asset) = "ok" THEN "ok"
           ELSE "failed verifying asset fields"

\* Asset::verify up to the collaborator stages: the checks run in order and
\* the first failure returns.  The result is the number of checks run.
RECURSIVE RunChecks(_, _, _)
RunChecks(checks, asset, i) ==
    IF i > Len(checks) THEN Len(checks)
    ELSE IF Check(checks[i], asset) # "ok" THEN i
    ELSE RunChecks(checks, asset, i + 1)

ChecksRun(asset) == SubSeq(VerifyChecks, 1, RunChecks(VerifyChecks, asset, 1))

\* the outcome of the last check that ran
ChecksResult(asset) == Check(ChecksRun(asset)[Len(ChecksRun(asset))], asset)

(***************************************************************************)
(* The records handed to Registry::write.                                  *)
(***************************************************************************)
Contract0 ==
    [version |-> 0, issuer_pubkey |-> Some(S_pubkey), name |-> S_FooToken,
     ticker |-> Some(S_FOO), precision |-> 0, entity |-> S_test_dev]

Contracts ==
    {Contract0,
     [Contract0 EXCEPT !.version = 1],
     [Contract0 EXCEPT !.precision = 9],
     [Contract0 EXCEPT !.name = S_BadName],
     [Contract0 EXCEPT !.ticker = Some(S_FO)],
     [Contract0 EXCEPT !.ticker = None],
     [Contract0 EXCEPT !.issuer_pubkey = Some(S_bad_key)],
     [Contract0 EXCEPT !.entity = S_bad_domain],
     [Contract0 EXCEPT !.entity = S_x_onion]}

\* Asset::from_request: the fields are parsed from the contract, the
\* issuance input comes from the chain, and there is no signature
from_request(asset_id, contract, prevout) ==
    [asset_id |-> asset_id, contract |-> contract,
     issuance_txin |-> prevout, issuance_prevout |-> prevout,
     fields |-> from_contract(contract), signature |-> None]

\* the id that commits to the contract and the prevout
IssuedId(contract, prevout) ==
    from_entropy(generate_asset_entropy(prevout, contract_json_hash(contract)))

\* some id that does not
OtherId(id) == IF id = AssetIdList[1] THEN AssetIdList[2] ELSE AssetIdList[1]

\* requests for the id their contract commits to, and requests for an id
\* it does not commit to
Requested ==
    {from_request(IssuedId(c, 0), c, 0) : c \in Contracts}
    \cup {from_request(IssuedId(Contract0, 1), Contract0, 1)}
    \cup {from_request(OtherId(IssuedId(c, 0)), c, 0) :
            c \in {Contract0,
                   [Contract0 EXCEPT !.version = 1],
                   [Contract0 EXCEPT !.name = S_BadName],
                   [Contract0 EXCEPT !.entity = S_bad_domain]}}

\* records that reach write from a file (Asset::load): they may carry a
\* signature, and fields that differ from the contract
Loaded ==
    {[from_request(IssuedId(Contract0, 0), Contract0, 0) EXCEPT !.signature = Some("sig")],
     [from_request(OtherId(IssuedId(Contract0, 0)), Contract0, 0) EXCEPT !.signature = Some("sig")],
     [from_request(IssuedId(Contract0, 0), Contract0, 0) EXCEPT !.fields.precision = 8]}

Requests == Requested \cup Loaded

(***************************************************************************)
(* Serialization of a record to its file, and back.  A file is a sequence  *)
(* of <<key, value>> tokens between an opening and a closing token; a      *)
(* partially written file is a proper prefix of that sequence.             *)
(***************************************************************************)
HexVal(c) == (CHOOSE i \in 1..16 : HexDigits[i] = c) - 1

\* AssetId::from_hex: two digits per byte, bytes in reverse order
from_hex(h) ==
    Reverse([i \in 1..(Len(h) \div 2) |-> HexVal(h[2 * i - 1]) * 16 + HexVal(h[2 * i])])

\* serde_json::to_string(&asset): the fields are flattened, and the
\* signature is skipped when it is None
to_string_skip_entity(asset) ==
    << <<"{", 0>>,
       <<"asset_id", to_hex(asset.asset_id)>>,
       <<"contract", asset.contract>>,
       <<"issuance_txin", asset.issuance_txin>>,
       <<"issuance_prevout", asset.issuance_prevout>>,
       <<"name", asset.fields.name>>,
       <<"ticker", asset.fields.ticker>>,
       <<"precision", asset.fields.precision>>,
       <<"}", 0>> >>
to_string(asset) ==
    << <<"{", 0>>,
       <<"asset_id", to_hex(asset.asset_id)>>,
       <<"contract", asset.contract>>,
       <<"issuance_txin", asset.issuance_txin>>,
       <<"issuance_prevout", asset.issuance_prevout>>,
       <<"name", asset.fields.name>>,
       <<"ticker", asset.fields.ticker>>,
       <<"precision", asset.fields.precision>>,
       <<"entity", asset.fields.entity>> >>
    \o (IF IsSome(asset.signature) THEN << <<"signature", Unwrap(asset.signature)>> >> ELSE << >>)
    \o << <<"}", 0>> >>

HasKey(content, key) == \E i \in 1..Len(content) : content[i][1] = key
Field(content, key) == content[CHOOSE i \in 1..Len(content) : content[i][1] = key][2]

\* serde_json::from_str succeeds on a complete object with the required keys
from_str_ok(content) ==
    /\ Len(content) >= 2
    /\ content[1][1] = "{"
    /\ content[Len(content)][1] = "}"
    /\ \A k \in {"asset_id", "contract", "issuance_txin", "issuance_prevout",
                 "name", "entity"} : HasKey(content, k)

from_str(content) ==
    [asset_id |-> from_hex(Field(content, "asset_id")),
     contract |-> Field(content, "contract"),
     issuance_txin |-> Field(content, "issuance_txin"),
     issuance_prevout |-> Field(content, "issuance_prevout"),
     fields |-> [name |-> Field(content, "name"),
                 ticker |-> IF HasKey(content, "ticker") THEN Field(content, "ticker") ELSE None,
                 precision |-> IF HasKey(content, "precision")
                               THEN Field(content, "precision") ELSE 0,
                 entity |-> Field(content, "entity")],
     signature |-> IF HasKey(content, "signature")
                   THEN Some(Field(content, "signature")) ELSE None]

\* what a failed write_all can leave in the file: a part of the content
\* (File::create has already left the file empty)
Truncations(content) == {SubSeq(content, 1, Len(content) - 1)}

(***************************************************************************)
(* src/entity.rs: the domain link check                                    *)
(***************************************************************************)
S_authorize == <<65, 117, 116, 104>>                \* "Auth", for "Authorize linking the domain name "
S_to_asset == <<32, 116, 111, 32>>                  \* " to ", for " to the Liquid asset "

\* format!("Authorize linking the domain name {} to the Liquid asset {}", domain, asset_id)
expected_body_without_id(asset) == S_authorize \o asset.fields.entity \o S_to_asset
expected_body(asset) == S_authorize \o asset.fields.entity \o S_to_asset \o to_hex(asset.asset_id)

\* the bodies a server may answer with
Bodies(asset) ==
    {expected_body(asset),
     expected_body(asset) \o <<10>>,
     <<32>> \o expected_body(asset),
     S_authorize \o asset.fields.entity \o S_to_asset \o to_hex(AssetIdList[1]),
     S_authorize \o asset.fields.entity \o S_to_asset \o to_hex(AssetIdList[2]),
     S_authorize \o S_test_dev \o S_to_asset \o to_hex(asset.asset_id),
     S_authorize \o S_x_onion \o S_to_asset \o to_hex(asset.asset_id),
     << >>}

\* the outcomes of the GET: a transport error, a non-success status, a body
Responses(asset) ==
    {[kind |-> "transport error", body |-> << >>], [kind |-> "status", body |-> << >>]}
    \cup {[kind |-> "body", body |-> b] : b \in Bodies(asset)}

\* verify_domain_link after the request: "ok" or the error
LinkResult(asset, resp) ==
    IF resp.kind = "transport error" THEN "failed fetching"
    ELSE IF resp.kind = "status" THEN "status error"
    ELSE IF trim_end(resp.body) = expected_body(asset) THEN "ok"
    ELSE "verification page contents mismatch"

\* verify_domain_link: the domain syntax check, then the request
verify_domain_link(asset, resp) ==
    IF ~verify_domain_name(asset.fields.entity) THEN "invalid domain name"
    ELSE LinkResult(asset, resp)

S_http == <<104, 116, 116, 112>>                    \* "http"
S_https == S_http \o <<115>>                        \* "https"
S_colon_slashes == <<58, 47, 47>>                   \* "://"
S_localhost == <<49, 50, 55, 46, 48, 46, 48, 46, 49, 58, 53, 56, 55, 49, 50>>  \* "127.0.0.1:58712"
S_well_known == <<47, 46, 119, 45>>                 \* "/.w-", for "/.well-known/liquid-asset-proof-"
S_onion_dev == <<111, 110, 105, 111, 110, 46, 100>> \* "onion.d"

\* page_url of verify_domain_link; dev_build is cfg!(any(test, feature = "dev"))
page_url(dev_build, domain, id) ==
    IF dev_build
    THEN S_http \o S_colon_slashes \o S_localhost \o S_well_known \o to_hex(id)
    ELSE (IF ends_with(domain, S_onion) THEN S_http ELSE S_https)
         \o S_colon_slashes \o domain \o S_well_known \o to_hex(id)

(***************************************************************************)
(* The state: one Registry, its directory, and the threads calling it.     *)
(***************************************************************************)
VARIABLES
    chain,          \* Registry.chain is Some
    hook_cmd,       \* Registry.hook_cmd is Some
    write_lock,     \* Registry.write_lock is locked
    dirs,           \* the partition directories that exist
    files,          \* path -> Option<content>
    pc,             \* where each thread is
    asset,          \* the argument of the write call of each thread
    lock_guard,     \* the thread's _lock guard is alive
    target,         \* the argument of the load call of each thread
    result,         \* the value the thread's call returns
    ran,            \* the checks of Asset::verify this call has run
    gets,           \* the GET requests this call has issued
    before,         \* the storage when this call took the lock
    verified,       \* ids for which some call passed Asset::verify
    written,        \* ids for which some call opened the record file
    succeeded,      \* ids for which some write returned Ok
    writes,         \* the write calls made so far
    hook_calls,     \* the hook processes this call has run
    call,           \* the call of FnSpec: a function of the checks, its arguments, its result
    persisted       \* path -> the content of the last completed file write

vars == <<chain, hook_cmd, write_lock, dirs, files, pc, asset, lock_guard,
          target, result, ran, gets, before, verified, written, succeeded, writes,
          hook_calls,
          call,
          persisted>>

Storage == [dirs |-> dirs, files |-> files]

\* no function call (the value of call in Spec)
NoCall == [fn |-> "none", args |-> << >>, done |-> FALSE, out |-> << >>]

NoResult == [tag |-> "none", ctx |-> "", val |-> None]
Ok == [tag |-> "ok", ctx |-> "", val |-> None]
OkSome(a) == [tag |-> "ok", ctx |-> "", val |-> Some(a)]
Err(c) == [tag |-> "err", ctx |-> c, val |-> None]

\* Registry::new on an empty directory
Init ==
    /\ chain \in BOOLEAN
    /\ hook_cmd \in BOOLEAN
    /\ write_lock = FALSE
    /\ dirs = {}
    /\ files = [p \in Paths |-> None]
    /\ pc = [t \in Threads |-> "idle"]
    /\ asset = [t \in Threads |-> None]
    /\ lock_guard = [t \in Threads |-> FALSE]
    /\ target = [t \in Threads |-> None]
    /\ result = [t \in Threads |-> NoResult]
    /\ ran = [t \in Threads |-> << >>]
    /\ gets = [t \in Threads |-> 0]
    /\ before = [t \in Threads |-> None]
    /\ verified = {}
    /\ written = {}
    /\ succeeded = {}
    /\ writes = 0
    /\ hook_calls = [t \in Threads |-> << >>]
    /\ call = NoCall
    /\ persisted = [p \in Paths |-> None]

\* Mutex::lock blocks while the mutex is locked
CanLockAlways(locked) == TRUE
CanLock(locked) == ~locked

\* the `?` after asset.verify(..): an error returns from write
AfterVerifyIgnoringErr(res) == "mkdir"
AfterVerify(res) == IF res = "ok" THEN "mkdir" ELSE "ret"

\* if let Some(chain) = chain { verify_asset_issuance_tx(chain, self)?; }
HasChainStageAlways(has_chain) == TRUE
HasChainStage(has_chain) == has_chain

\* the `?` after each local check of Asset::verify, then the chain stage
\* if a ChainQuery is present
AfterChecksIgnoringErr(res, has_chain) == IF has_chain THEN "chain" ELSE "link"
AfterChecks(res, has_chain) ==
    IF res # "ok" THEN AfterVerify(res)
    ELSE IF HasChainStage(has_chain) THEN "chain" ELSE "link"

\* MutexGuard::drop unlocks the mutex
MutexGuard_drop_keeps_locked(locked) == locked
MutexGuard_drop(locked) == FALSE

\* the scoped _lock guard is dropped on every return from write
GuardDroppedOnOk(res) == res.tag = "ok"
GuardDropped(res) == TRUE

\* Registry::load once the path is known to exist: Asset::load(path)?
AssetLoad(content) ==
    IF ~IsSome(content) THEN Err("io error")
    ELSE IF from_str_ok(Unwrap(content)) THEN OkSome(from_str(Unwrap(content)))
    ELSE Err("invalid json")

\* exec_hook: Command::new(cmd).current_dir(&self.directory)
\*     .arg(asset_id.to_hex()).arg(asset_path); paths of the model are
\* relative to self.directory
exec_hook_Command_args_swapped(id) ==
    [current_dir |-> "directory", args |-> <<PathOf(id), to_hex(id)>>]
exec_hook_Command(id) ==
    [current_dir |-> "directory", args |-> <<to_hex(id), PathOf(id)>>]

\* Registry::load has no write_lock.lock(): it runs whatever the lock state
LoadWaitsForLock(locked) == ~locked
LoadCanRun(locked) == TRUE

\* path.exists() in Registry::load
subdir_exists(path) == path[1] \in dirs
path_exists(path) == IsSome(files[path])

----------------------------------------------------------------------------
(***************************************************************************)
(* Registry::write                                                         *)
(***************************************************************************)
\* a thread calls write(asset); nothing reads the record before the lock is
\* taken, so the record is drawn in Lock
Write(t) ==
    /\ pc[t] = "idle"
    /\ writes < MaxWrites
    /\ writes' = writes + 1
    /\ pc' = [pc EXCEPT ![t] = "lock"]
    /\ UNCHANGED <<chain, hook_cmd, write_lock, dirs, files, asset, lock_guard, target,
                   result, ran, gets, before, verified, written, succeeded,
                   hook_calls,
                   call,
                   persisted>>

\* a thread calls write(asset), any number of times (the calls of LiveSpec)
WriteAgain(t) ==
    /\ pc[t] = "idle"
    /\ pc' = [pc EXCEPT ![t] = "lock"]
    /\ UNCHANGED <<chain, hook_cmd, write_lock, dirs, files, asset, lock_guard, target,
                   result, ran, gets, before, verified, written, succeeded, writes,
                   hook_calls, call,
                   persisted>>

\* let _lock = self.write_lock.lock().unwrap(); a is the record of the call
Lock(t, a) ==
    /\ pc[t] = "lock"
    /\ CanLock(write_lock)
    /\ write_lock' = TRUE
    /\ lock_guard' = [lock_guard EXCEPT ![t] = TRUE]
    /\ asset' = [asset EXCEPT ![t] = Some(a)]
    /\ before' = [before EXCEPT ![t] = Some(Storage)]
    /\ pc' = [pc EXCEPT ![t] = "verify"]
    /\ UNCHANGED <<writes, chain, hook_cmd, dirs, files, target, result, ran, gets,
                   verified, written, succeeded,
                   hook_calls,
                   call,
                   persisted>>

\* Asset::verify returns res to write
VerifyReturns(t, res) ==
    /\ pc' = [pc EXCEPT ![t] = AfterVerify(res)]
    /\ result' = [result EXCEPT ![t] = IF AfterVerify(res) = "ret" THEN Err(res) ELSE @]
    /\ verified' = IF res = "ok" THEN verified \cup {Unwrap(asset[t]).asset_id} ELSE verified

\* Asset::verify: the checks that need no collaborator; run is the checks
\* that ran and res the outcome of the last of them
VerifyChecksStep(t) ==
    /\ pc[t] = "verify"
    /\ \E run \in {ChecksRun(Unwrap(asset[t]))} :
       \E res \in {Check(run[Len(run)], Unwrap(asset[t]))} :
          /\ ran' = [ran EXCEPT ![t] = run]
          /\ IF AfterChecks(res, chain) \in {"chain", "link"}
             THEN /\ pc' = [pc EXCEPT ![t] = AfterChecks(res, chain)]
                  /\ UNCHANGED <<result, verified>>
             ELSE VerifyReturns(t, res)
    /\ UNCHANGED <<writes, chain, hook_cmd, write_lock, dirs, files, asset, lock_guard,
                   target, gets, before, written, succeeded,
                   hook_calls,
                   call,
                   persisted>>

\* Asset::verify: verify_asset_issuance_tx(chain, self), whose outcome is
\* the chain's
VerifyChain(t) ==
    /\ pc[t] = "chain"
    /\ ran' = [ran EXCEPT ![t] = Append(@, "chain")]
    /\ \E confirmed \in BOOLEAN :
          IF confirmed
          THEN /\ pc' = [pc EXCEPT ![t] = "link"]
               /\ UNCHANGED <<result, verified>>
          ELSE VerifyReturns(t, "failed verifying on-chain issuance")
    /\ UNCHANGED <<writes, chain, hook_cmd, write_lock, dirs, files, asset, lock_guard,
                   target, gets, before, written, succeeded,
                   hook_calls,
                   call,
                   persisted>>

\* Asset::verify: verify_asset_link -> verify_domain_link; one GET
VerifyLink(t) ==
    /\ pc[t] = "link"
    /\ ran' = [ran EXCEPT ![t] = Append(@, "link")]
    /\ LET a == Unwrap(asset[t])
       IN IF ~verify_domain_name(a.fields.entity)
          THEN /\ VerifyReturns(t, "failed verifying linked entity")
               /\ UNCHANGED gets
          ELSE /\ gets' = [gets EXCEPT ![t] = @ + 1]
               /\ \E resp \in Responses(a) :
                     VerifyReturns(t, IF LinkResult(a, resp) = "ok" THEN "ok"
                                      ELSE "failed verifying linked entity")
    /\ UNCHANGED <<writes, chain, hook_cmd, write_lock, dirs, files, asset, lock_guard,
                   target, before, written, succeeded,
                   hook_calls,
                   call,
                   persisted>>

\* if !subdir.exists() { fs::create_dir(&subdir)?; }
MkDir(t) ==
    /\ pc[t] = "mkdir"
    /\ LET sub == SubDir(Unwrap(asset[t]).asset_id)
       IN IF sub \in dirs
          THEN /\ pc' = [pc EXCEPT ![t] = "create"]
               /\ UNCHANGED <<dirs, result>>
          ELSE \E created \in BOOLEAN :
                  IF created
                  THEN /\ dirs' = dirs \cup {sub}
                       /\ pc' = [pc EXCEPT ![t] = "create"]
                       /\ UNCHANGED result
                  ELSE /\ pc' = [pc EXCEPT ![t] = "ret"]
                       /\ result' = [result EXCEPT ![t] = Err("io error")]
                       /\ UNCHANGED dirs
    /\ UNCHANGED <<writes, chain, hook_cmd, write_lock, files, asset, lock_guard, target,
                   ran, gets, before, verified, written, succeeded,
                   hook_calls,
                   call,
                   persisted>>

\* fs::write(&path, ..): File::create opens the file and truncates it
Create(t) ==
    /\ pc[t] = "create"
    /\ LET id == Unwrap(asset[t]).asset_id
       IN \E opened \in BOOLEAN :
             IF opened /\ SubDir(id) \in dirs
             THEN /\ files' = [files EXCEPT ![PathOf(id)] = Some(<< >>)]
                  /\ written' = written \cup {id}
                  /\ pc' = [pc EXCEPT ![t] = "write_all"]
                  /\ UNCHANGED result
             ELSE /\ pc' = [pc EXCEPT ![t] = "ret"]
                  /\ result' = [result EXCEPT ![t] = Err("io error")]
                  /\ UNCHANGED <<files, written>>
    /\ UNCHANGED <<writes, chain, hook_cmd, write_lock, dirs, asset, lock_guard, target,
                   ran, gets, before, verified, succeeded,
                   hook_calls,
                   call,
                   persisted>>

\* fs::write(&path, ..): write_all of the serialized record
WriteAll(t) ==
    /\ pc[t] = "write_all"
    /\ LET a == Unwrap(asset[t])
           path == PathOf(a.asset_id)
       IN \/ /\ files' = [files EXCEPT ![path] = Some(to_string(a))]
             /\ persisted' = [persisted EXCEPT ![path] = Some(to_string(a))]
             /\ pc' = [pc EXCEPT ![t] = "hook"]
             /\ UNCHANGED result
          \/ \E partial \in Truncations(to_string(a)) :
                /\ files' = [files EXCEPT ![path] = Some(partial)]
                /\ pc' = [pc EXCEPT ![t] = "ret"]
                /\ result' = [result EXCEPT ![t] = Err("io error")]
                /\ UNCHANGED persisted
    /\ UNCHANGED <<writes, chain, hook_cmd, write_lock, dirs, asset, lock_guard, target,
                   ran, gets, before, verified, written, succeeded,
                   hook_calls,
                   call>>

\* self.exec_hook(&asset.asset_id, &path).context("hook script failed")?; Ok(())
Hook(t) ==
    /\ pc[t] = "hook"
    /\ \E status \in {"exit 0", "exit 1", "spawn failed"} :
          /\ IF ~hook_cmd \/ status = "exit 0"
             THEN /\ result' = [result EXCEPT ![t] = Ok]
                  /\ succeeded' = succeeded \cup {Unwrap(asset[t]).asset_id}
             ELSE /\ result' = [result EXCEPT ![t] = Err("hook script failed")]
                  /\ UNCHANGED succeeded
          /\ hook_calls' =
                IF hook_cmd /\ status # "spawn failed"
                THEN [hook_calls EXCEPT
                         ![t] = Append(@, exec_hook_Command(Unwrap(asset[t]).asset_id))]
                ELSE hook_calls
    /\ pc' = [pc EXCEPT ![t] = "ret"]
    /\ UNCHANGED <<writes, chain, hook_cmd, write_lock, dirs, files, asset, lock_guard,
                   target, ran, gets, before, verified, written,
                   call,
                   persisted>>

\* write returns: the guard goes out of scope and the caller takes the result
Return(t) ==
    /\ pc[t] = "ret"
    /\ pc' = [pc EXCEPT ![t] = "idle"]
    /\ IF GuardDropped(result[t])
       THEN /\ write_lock' = MutexGuard_drop(write_lock)
            /\ lock_guard' = [lock_guard EXCEPT ![t] = FALSE]
       ELSE UNCHANGED <<write_lock, lock_guard>>
    /\ before' = [before EXCEPT ![t] = None]
    /\ ran' = [ran EXCEPT ![t] = << >>]
    /\ gets' = [gets EXCEPT ![t] = 0]
    /\ asset' = [asset EXCEPT ![t] = None]
    /\ result' = [result EXCEPT ![t] = NoResult]
    /\ hook_calls' = [hook_calls EXCEPT ![t] = << >>]
    /\ UNCHANGED <<writes, chain, hook_cmd, dirs, files, target,
                   verified, written, succeeded,
                   call,
                   persisted>>

----------------------------------------------------------------------------
(***************************************************************************)
(* Registry::load                                                          *)
(***************************************************************************)
\* a thread calls load(asset_id)
Load(t, id) ==
    /\ pc[t] = "idle"
    /\ pc' = [pc EXCEPT ![t] = "exists"]
    /\ target' = [target EXCEPT ![t] = Some(id)]
    /\ UNCHANGED <<writes, chain, hook_cmd, write_lock, dirs, files, asset, lock_guard,
                   result, ran, gets, before, verified, written, succeeded,
                   hook_calls,
                   call,
                   persisted>>

\* if path.exists() { .. } else { None }
LoadExists(t) ==
    /\ pc[t] = "exists"
    /\ LoadCanRun(write_lock)
    /\ IF path_exists(PathOf(Unwrap(target[t])))
       THEN /\ pc' = [pc EXCEPT ![t] = "read"]
            /\ UNCHANGED result
       ELSE /\ pc' = [pc EXCEPT ![t] = "load_ret"]
            /\ result' = [result EXCEPT ![t] = Ok]
    /\ UNCHANGED <<writes, chain, hook_cmd, write_lock, dirs, files, asset, lock_guard,
                   target, ran, gets, before, verified, written, succeeded,
                   hook_calls,
                   call,
                   persisted>>

\* Some(Asset::load(path)?)
LoadRead(t) ==
    /\ pc[t] = "read"
    /\ LoadCanRun(write_lock)
    /\ result' = [result EXCEPT ![t] = AssetLoad(files[PathOf(Unwrap(target[t]))])]
    /\ pc' = [pc EXCEPT ![t] = "load_ret"]
    /\ UNCHANGED <<writes, chain, hook_cmd, write_lock, dirs, files, asset, lock_guard,
                   target, ran, gets, before, verified, written, succeeded,
                   hook_calls,
                   call,
                   persisted>>

\* load returns: the caller takes the result
LoadReturn(t) ==
    /\ pc[t] = "load_ret"
    /\ pc' = [pc EXCEPT ![t] = "idle"]
    /\ target' = [target EXCEPT ![t] = None]
    /\ result' = [result EXCEPT ![t] = NoResult]
    /\ UNCHANGED <<writes, chain, hook_cmd, write_lock, dirs, files, asset, lock_guard,
                   ran, gets, before, verified, written, succeeded,
                   hook_calls,
                   call,
                   persisted>>

----------------------------------------------------------------------------
Next ==
    \/ \E t \in Threads : Write(t)
    \/ \E t \in Threads, a \in Requests : Lock(t, a)
    \/ \E t \in Threads : VerifyChecksStep(t)
    \/ \E t \in Threads : VerifyChain(t)
    \/ \E t \in Threads : VerifyLink(t)
    \/ \E t \in Threads : MkDir(t)
    \/ \E t \in Threads : Create(t)
    \/ \E t \in Threads : WriteAll(t)
    \/ \E t \in Threads : Hook(t)
    \/ \E t \in Threads : Return(t)
    \/ \E t \in Threads, id \in AssetIds : Load(t, id)
    \/ \E t \in Threads : LoadExists(t)
    \/ \E t \in Threads : LoadRead(t)
    \/ \E t \in Threads : LoadReturn(t)

Spec == Init /\ [][Next]_vars

----------------------------------------------------------------------------
(***************************************************************************)
(* FnSpec: the functions of the checks, each applied once to an argument   *)
(* drawn from a set: verify_domain_link, page_url and the ticker check.    *)
(***************************************************************************)
\* the records whose link is checked: the requests that pass the checks
\* before the link
LinkAssets == {a \in Requests : ChecksResult(a) = "ok"}

\* bodies that deviate from the expected one in one character, or by
\* whitespace
Deviations(a) ==
    LET e == expected_body(a)
    IN {[e EXCEPT ![i] = 88] : i \in 1..Len(e)}
       \cup {SubSeq(e, 1, Len(e) - 1), e \o <<88>>, e \o <<10, 88>>,
             e \o <<13, 10>>, e \o <<32, 9, 10>>, <<10>> \o e,
             SubSeq(e, 1, 4) \o <<32>> \o SubSeq(e, 5, Len(e))}

\* the outcomes of the GET, where a response with an error status has a
\* body as well
LinkResponses(a) ==
    {[kind |-> "transport error", body |-> << >>]}
    \cup {[kind |-> k, body |-> b] :
            k \in {"status", "body"}, b \in Bodies(a) \cup Deviations(a)}

\* tickers of length 0 to 6 over 'F', and those with one other character
Tickers ==
    LET Fs(n) == [i \in 1..n |-> 70]
    IN {Fs(n) : n \in 0..6}
       \cup UNION {{[Fs(n) EXCEPT ![i] = c] :
                       i \in 1..n,
                       c \in {45, 46, 65, 90, 97, 122, 49, 32, 95, 233, 10, 64, 91, 96, 123}} :
                   n \in 2..6}

\* a record whose ticker is tk
WithTicker(tk) ==
    LET c == [Contract0 EXCEPT !.ticker = tk]
    IN from_request(IssuedId(c, 0), c, 0)

FnCalls ==
    {[fn |-> "verify_domain_link", args |-> <<a, r>>, done |-> FALSE, out |-> << >>] :
        a \in LinkAssets, r \in UNION {LinkResponses(b) : b \in LinkAssets}}
    \cup {[fn |-> "page_url", args |-> <<dev_build, d, id>>, done |-> FALSE, out |-> << >>] :
            dev_build \in BOOLEAN, d \in {S_test_dev, S_x_onion, S_onion_dev, S_onion},
            id \in AssetIds}
    \cup {[fn |-> "ticker", args |-> <<tk>>, done |-> FALSE, out |-> << >>] :
            tk \in {None} \cup {Some(s) : s \in Tickers}}

FnInit ==
    /\ chain = FALSE
    /\ hook_cmd = FALSE
    /\ write_lock = FALSE
    /\ dirs = {}
    /\ files = [p \in Paths |-> None]
    /\ pc = [t \in Threads |-> "idle"]
    /\ asset = [t \in Threads |-> None]
    /\ lock_guard = [t \in Threads |-> FALSE]
    /\ target = [t \in Threads |-> None]
    /\ result = [t \in Threads |-> NoResult]
    /\ ran = [t \in Threads |-> << >>]
    /\ gets = [t \in Threads |-> 0]
    /\ before = [t \in Threads |-> None]
    /\ verified = {}
    /\ written = {}
    /\ succeeded = {}
    /\ writes = 0
    /\ hook_calls = [t \in Threads |-> << >>]
    /\ persisted = [p \in Paths |-> None]
    /\ call \in FnCalls

\* the variables of the Registry and its threads
registry_vars ==
    <<chain, hook_cmd, write_lock, dirs, files, pc, asset, lock_guard, target, result,
      ran, gets, before, verified, written, succeeded, writes, hook_calls,
      persisted>>

\* verify_domain_link(asset, domain) with the response of the server
CallVerifyDomainLink ==
    /\ call.fn = "verify_domain_link" /\ ~call.done
    /\ call' = [call EXCEPT !.done = TRUE,
                            !.out = verify_domain_link(call.args[1], call.args[2])]
    /\ UNCHANGED registry_vars

\* the page_url computed by verify_domain_link
CallPageUrl ==
    /\ call.fn = "page_url" /\ ~call.done
    /\ call' = [call EXCEPT !.done = TRUE,
                            !.out = page_url(call.args[1], call.args[2], call.args[3])]
    /\ UNCHANGED registry_vars

\* the ticker check of Asset::verify
CallTickerCheck ==
    /\ call.fn = "ticker" /\ ~call.done
    /\ call' = [call EXCEPT !.done = TRUE,
                            !.out = Check("ticker", WithTicker(call.args[1]))]
    /\ UNCHANGED registry_vars

FnNext ==
    \/ CallVerifyDomainLink
    \/ CallPageUrl
    \/ CallTickerCheck

FnSpec == FnInit /\ [][FnNext]_vars

----------------------------------------------------------------------------
(***************************************************************************)
(* LiveSpec: threads that call write again and again, under fairness.  The *)
(* scheduler is fair to every thread that can take a step of its call, the *)
(* external calls (chain query, GET, hook process) return, and a thread    *)
(* that finds the mutex free again and again gets it at some time.         *)
(***************************************************************************)
\* the records written in LiveSpec: two that pass the local checks, for
\* different ids, and one that fails them
LiveRequests ==
    {from_request(IssuedId(Contract0, 0), Contract0, 0),
     from_request(IssuedId(Contract0, 1), Contract0, 1),
     from_request(OtherId(IssuedId(Contract0, 0)), Contract0, 0)}

\* a Registry with a chain collaborator and a hook
LiveInit == Init /\ chain /\ hook_cmd

\* a step of the write call of t after it has the lock
WriteStep(t) ==
    \/ VerifyChecksStep(t)
    \/ VerifyChain(t)
    \/ VerifyLink(t)
    \/ MkDir(t)
    \/ Create(t)
    \/ WriteAll(t)
    \/ Hook(t)
    \/ Return(t)

LiveNext ==
    \/ \E t \in Threads : WriteAgain(t)
    \/ \E t \in Threads, a \in LiveRequests : Lock(t, a)
    \/ \E t \in Threads : WriteStep(t)

LiveSpec ==
    /\ LiveInit
    /\ [][LiveNext]_vars
    /\ \A t \in Threads : SF_vars(\E a \in LiveRequests : Lock(t, a))
    /\ \A t \in Threads : WF_vars(WriteStep(t))

----------------------------------------------------------------------------
(***************************************************************************)
(* Properties                                                              *)
(***************************************************************************)
\* the thread is between lock acquisition and return of a write call
HoldsLock(t) ==
    pc[t] \in {"verify", "chain", "link", "mkdir", "create", "write_all", "hook", "ret"}

\* the errors Asset::verify returns
VerifyErrors ==
    {"unknown version", "precision out of range", "invalid name", "invalid ticker",
     "missing issuer_pubkey", "invalid issuer_pubkey hex", "invalid issuer public key",
     "invalid domain name", "failed verifying issuance commitment",
     "failed verifying asset fields", "failed verifying on-chain issuance",
     "failed verifying linked entity"}

\* the rules on single fields that Asset::verify checks
FieldRules == {"version", "precision", "name", "ticker", "issuer_pubkey", "domain_name"}

\* C1: a record file exists at the path of asset id X only if some write
\* call for X passed every stage of Asset::verify, and a write whose
\* verification fails returns with the storage as it was when it started.
VerifyThenPersist ==
    /\ \A id \in AssetIds : IsSome(files[PathOf(id)]) => id \in verified
    /\ \A t \in Threads :
          (pc[t] = "ret" /\ result[t].tag = "err" /\ result[t].ctx \in VerifyErrors)
              => before[t] = Some(Storage)

\* a write of X fails verification while X's file, from an earlier write, exists
VerifyThenPersistWitness ==
    \E t \in Threads :
       /\ pc[t] = "ret" /\ result[t].tag = "err" /\ result[t].ctx \in VerifyErrors
       /\ IsSome(files[PathOf(Unwrap(asset[t]).asset_id)])

\* C2: at most one write call is between lock acquisition and return.
MutualExclusion ==
    \A t, u \in Threads : (t # u /\ HoldsLock(t)) => ~HoldsLock(u)

\* one call is writing its file while another waits for the lock
MutualExclusionWitness ==
    \E t, u \in Threads : pc[t] = "write_all" /\ pc[u] = "lock"

\* C3: the lock is held only by a call between acquisition and return; once
\* every write call has returned, by whichever path, the lock is free.
LockReleasedOnReturn ==
    /\ \A t \in Threads : lock_guard[t] => HoldsLock(t)
    /\ write_lock => \E t \in Threads : HoldsLock(t)

\* every call has returned and the lock is free, after a write that failed
\* in the file system (verified, file never opened) and a write whose hook
\* failed (complete file, no write of the id returned Ok)
LockReleasedOnReturnWitness ==
    /\ ~write_lock
    /\ \A t \in Threads : pc[t] = "idle"
    /\ verified \ written # {}
    /\ \E id \in written \ succeeded :
          IsSome(files[PathOf(id)]) /\ from_str_ok(Unwrap(files[PathOf(id)]))

\* C4: whenever write fails with an error other than the hook failure, the
\* storage is identical to its state before the call.
NoPartialStateOnError ==
    \A t \in Threads :
       (pc[t] = "ret" /\ result[t].tag = "err" /\ result[t].ctx # "hook script failed")
           => before[t] = Some(Storage)

\* C5: when write returns the hook failure, the record file holds the
\* complete serialized record of a verified write, and a hook is configured.
HookFailureKeepsRecord ==
    \A t \in Threads :
       (pc[t] = "ret" /\ result[t] = Err("hook script failed"))
           => LET a == Unwrap(asset[t])
                  content == files[PathOf(a.asset_id)]
              IN /\ hook_cmd
                 /\ a.asset_id \in verified
                 /\ IsSome(content)
                 /\ from_str_ok(Unwrap(content))
                 /\ from_str(Unwrap(content)) = a

\* a write returns the hook failure
HookFailureKeepsRecordWitness ==
    \E t \in Threads : pc[t] = "ret" /\ result[t] = Err("hook script failed")

\* C6: a load of X that runs while a write of X is in flight never fails to
\* deserialize the file.
NoPartialWriteObserved ==
    \A t, u \in Threads :
       (/\ pc[t] = "load_ret"
        /\ HoldsLock(u) /\ pc[u] # "ret"
        /\ Unwrap(asset[u]).asset_id = Unwrap(target[t]))
           => result[t].tag = "ok"

\* C7 as stated: a record that violates both the commitment and a field rule
\* is rejected with the commitment failure.
CommitmentFailureFirst ==
    \A t \in Threads :
       (/\ pc[t] = "ret"
        /\ ~verify_asset_commitment(Unwrap(asset[t]))
        /\ \E c \in FieldRules : Check(c, Unwrap(asset[t])) # "ok")
           => result[t] = Err("failed verifying issuance commitment")

\* the order in which Asset::verify runs its checks
StageOrder(has_chain) ==
    <<"version", "precision", "name", "ticker", "issuer_pubkey", "domain_name",
      "commitment", "fields">>
    \o (IF has_chain THEN <<"chain">> ELSE << >>) \o <<"link">>

\* C7, amended: the checks run in the order version, precision, name, ticker,
\* issuer pubkey, domain syntax, commitment, fields, on-chain issuance (if a
\* chain collaborator is present), domain link; a check runs only after every
\* earlier one has passed, so a record that violates both the commitment and
\* a field rule is rejected with the failure of the field rule.
StagesInProgramOrder ==
    \A t \in Threads :
       HoldsLock(t) =>
          LET a == Unwrap(asset[t])
              order == StageOrder(chain)
          IN /\ Len(ran[t]) <= Len(order)
             /\ ran[t] = SubSeq(order, 1, Len(ran[t]))
             /\ \A i \in 1..Len(ran[t]) :
                   \/ i = Len(ran[t]) /\ pc[t] = "ret"
                   \/ ran[t][i] \in {"chain", "link"}
                   \/ Check(ran[t][i], a) = "ok"
             /\ (pc[t] = "ret" /\ \E c \in FieldRules : Check(c, a) # "ok")
                   => /\ result[t].ctx \notin
                            {"failed verifying issuance commitment",
                             "failed verifying asset fields"}
                      /\ result[t] = Err(Check(ran[t][Len(ran[t])], a))
                      /\ ran[t][Len(ran[t])] \in FieldRules

\* a record that violates the commitment and a field rule has been rejected
StagesInProgramOrderWitness ==
    \E t \in Threads :
       /\ pc[t] = "ret"
       /\ ~verify_asset_commitment(Unwrap(asset[t]))
       /\ \E c \in FieldRules : Check(c, Unwrap(asset[t])) # "ok"

\* C8: a write call issues at most one GET, only after every check, the
\* domain syntax check and the on-chain stage (if present) have passed; a
\* call that fails an earlier check issues no GET and touches no storage.
GetOnceAfterEarlierStages ==
    \A t \in Threads :
       HoldsLock(t) =>
          LET a == Unwrap(asset[t])
          IN /\ gets[t] <= 1
             /\ gets[t] = 1 =>
                   /\ \A c \in FieldRules \cup {"commitment", "fields"} : Check(c, a) = "ok"
                   /\ verify_domain_name(a.fields.entity)
                   /\ chain => \E i \in 1..Len(ran[t]) : ran[t][i] = "chain"
                   /\ ran[t][Len(ran[t])] = "link"
             /\ (pc[t] = "ret" /\ result[t].tag = "err"
                 /\ result[t].ctx \in VerifyErrors \ {"failed verifying linked entity"})
                   => /\ gets[t] = 0
                      /\ before[t] = Some(Storage)
                      /\ \A i \in 1..Len(ran[t]) : ran[t][i] # "link"

\* with a chain collaborator, a call has issued its GET and gone on
GetOnceAfterEarlierStagesWitness ==
    \E t \in Threads : chain /\ gets[t] = 1 /\ pc[t] \in {"mkdir", "ret"}

\* C9: a write of a record that carries a signature never reaches the
\* persisting steps and returns an error with the storage unchanged; no file
\* ever holds a signature.
UpdatesRejected ==
    /\ \A t \in Threads :
          (HoldsLock(t) /\ IsSome(Unwrap(asset[t]).signature))
             => /\ pc[t] \in {"verify", "ret"}
                /\ pc[t] = "ret" => /\ result[t].tag = "err"
                                    /\ result[t].ctx \in VerifyErrors
                                    /\ before[t] = Some(Storage)
    /\ \A p \in Paths : IsSome(files[p]) => ~HasKey(Unwrap(files[p]), "signature")

\* a signed record whose commitment and field rules are all correct has been
\* rejected by verify_asset_fields
UpdatesRejectedWitness ==
    \E t \in Threads :
       /\ pc[t] = "ret"
       /\ IsSome(Unwrap(asset[t]).signature)
       /\ verify_asset_commitment(Unwrap(asset[t]))
       /\ \A c \in FieldRules : Check(c, Unwrap(asset[t])) = "ok"
       /\ result[t] = Err("failed verifying asset fields")

\* no thread is inside a write call
NoWriteRunning == \A t \in Threads : pc[t] # "lock" /\ ~HoldsLock(t)

\* C10 as stated: load of an id for which no write has succeeded returns
\* not-found.  Checked in the part that does not depend on C6: while no
\* write call is running, such a load returns no record.  A write of X whose
\* hook failed returned an error and left X's complete record, which load
\* then returns.
NotFoundUnlessWriteSucceeded ==
    \A t \in Threads :
       (/\ NoWriteRunning
        /\ pc[t] = "load_ret"
        /\ Unwrap(target[t]) \notin succeeded) => ~IsSome(result[t].val)

\* C10, amended: load of an id X returns not-found as long as no write call
\* for X has passed verification and opened X's record file, whatever writes
\* of other ids (also in X's partition directory) and writes of X that failed
\* before that point have happened.
NotFoundUnlessFileWritten ==
    \A t \in Threads :
       (pc[t] = "load_ret" /\ Unwrap(target[t]) \notin written) => result[t] = Ok

\* load of X returns not-found although X's partition directory exists and a
\* write of X passed verification and then failed before the file write
NotFoundUnlessFileWrittenWitness ==
    \E t \in Threads :
       /\ pc[t] = "load_ret" /\ result[t] = Ok
       /\ Unwrap(target[t]) \in verified \ written
       /\ SubDir(Unwrap(target[t])) \in dirs

\* C11: a hook process runs only in a write call that passed every stage of
\* Asset::verify and whose complete record is in the file, after the file
\* write, at most once per call, as hook(asset id hex, path of the file) in
\* the registry directory; without a configured hook no process runs and a
\* call that reached the hook step returns Ok.
HookAfterPersist ==
    \A t \in Threads :
       /\ Len(hook_calls[t]) <= 1
       /\ hook_calls[t] # << >> =>
             /\ pc[t] = "ret" /\ hook_cmd
             /\ result[t] \in {Ok, Err("hook script failed")}
             /\ LET a == Unwrap(asset[t])
                IN /\ ran[t] = StageOrder(chain)
                   /\ \A c \in FieldRules \cup {"commitment", "fields"} : Check(c, a) = "ok"
                   /\ a.asset_id \in verified
                   /\ files[PathOf(a.asset_id)] = Some(to_string(a))
                   /\ hook_calls[t][1] =
                         [current_dir |-> "directory",
                          args |-> <<to_hex(a.asset_id),
                                    <<SubSeq(to_hex(a.asset_id), 1, 2),
                                      to_hex(a.asset_id) \o S_json>> >>]
       /\ pc[t] = "hook" =>
             files[PathOf(Unwrap(asset[t]).asset_id)] = Some(to_string(Unwrap(asset[t])))
       /\ (pc[t] = "ret" /\ ~hook_cmd) =>
             /\ hook_calls[t] = << >>
             /\ result[t] = Ok \/ result[t].ctx \in VerifyErrors \cup {"io error"}

\* a write call has run the configured hook, which exited with success
HookAfterPersistWitness ==
    \E t \in Threads :
       pc[t] = "ret" /\ Len(hook_calls[t]) = 1 /\ result[t] = Ok

\* the thread is inside a load call
InLoad(t) == pc[t] \in {"exists", "read", "load_ret"}

\* C12: load never takes the write lock: whatever the lock state, also while
\* a write call holds the lock, nothing keeps a step of a load from being
\* taken (the guard of LoadExists and LoadRead holds); a thread inside load
\* holds no guard; and no step of a load changes the lock or the storage.
LoadIsLockFree ==
    /\ [](\A t \in Threads :
            /\ InLoad(t) => ~lock_guard[t]
            /\ pc[t] \in {"exists", "read"} => LoadCanRun(write_lock))
    /\ [][\A t \in Threads :
            ((InLoad(t) \/ InLoad(t)') /\ pc[t]' # pc[t])
                => UNCHANGED <<write_lock, lock_guard, dirs, files>>]_vars

\* a load has its result while a write call holds the lock and waits for
\* the answer to its domain GET
LoadIsLockFreeWitness ==
    \E t, u \in Threads :
       /\ pc[t] = "load_ret" /\ result[t].tag = "ok"
       /\ pc[u] = "link" /\ write_lock /\ lock_guard[u]

\* the body is "Authorize linking the domain name {domain} to the Liquid
\* asset {asset_id_hex}" for the record's domain and id, followed by
\* whitespace only
BodyMatches(a, body) ==
    LET e == S_authorize \o a.fields.entity \o S_to_asset \o to_hex(a.asset_id)
    IN /\ Len(body) >= Len(e)
       /\ SubSeq(body, 1, Len(e)) = e
       /\ \A i \in (Len(e) + 1)..Len(body) : IsWhitespace(body[i])

\* C13 as stated: the link check accepts a response if and only if its body,
\* after trimming trailing whitespace only, equals the expected text.
LinkAcceptedIffBodyMatches ==
    (call.fn = "verify_domain_link" /\ call.done /\ call.args[2].kind # "transport error")
        => (call.out = "ok" <=> BodyMatches(call.args[1], call.args[2].body))

\* C13, amended: the link check accepts a response if and only if it has a
\* success status and its body, after trimming trailing whitespace only,
\* equals the expected text for the record's own domain and asset id; a
\* response with an error status is rejected whatever its body.
LinkAcceptedIffStatusAndBodyMatch ==
    (call.fn = "verify_domain_link" /\ call.done)
        => (call.out = "ok" <=>
               /\ call.args[2].kind = "body"
               /\ BodyMatches(call.args[1], call.args[2].body))

\* a response whose body is the expected text and a newline has been
\* accepted
LinkAcceptedIffStatusAndBodyMatchWitness ==
    /\ call.fn = "verify_domain_link" /\ call.done /\ call.out = "ok"
    /\ call.args[2].body = expected_body(call.args[1]) \o <<10>>

\* C14: for every domain that does not end in ".onion" the challenge URL is
\* https://{domain}/.well-known/liquid-asset-proof-{asset_id_hex}, in every
\* build configuration; http is used only for domains ending in ".onion".
PublicDomainsFetchedOverHttps ==
    (call.fn = "page_url" /\ call.done) =>
        LET domain == call.args[2]
            id == call.args[3]
        IN /\ ~ends_with(domain, S_onion) =>
                 call.out = S_https \o S_colon_slashes \o domain \o S_well_known \o to_hex(id)
           /\ SubSeq(call.out, 1, 7) = S_http \o S_colon_slashes => ends_with(domain, S_onion)

\* C15: the commitment check accepts a record (A, C, P) if and only if A is
\* the id derived from the entropy of P and the hash of C; a record with
\* another id never gets past Asset::verify, and the write that fails in the
\* commitment check returns that error with the storage unchanged.
CommitmentIffDerivedId ==
    \A t \in Threads :
       HoldsLock(t) =>
          LET a == Unwrap(asset[t])
              derived == from_entropy(generate_asset_entropy(
                             a.issuance_prevout, sha256(ContractBytes(a.contract))))
              checked == \E i \in 1..Len(ran[t]) : ran[t][i] = "commitment"
              rejected == pc[t] = "ret" /\ ran[t][Len(ran[t])] = "commitment"
          IN /\ checked => (rejected <=> a.asset_id # derived)
             /\ rejected => /\ result[t] = Err("failed verifying issuance commitment")
                            /\ before[t] = Some(Storage)
             /\ a.asset_id # derived =>
                   /\ pc[t] \in {"verify", "ret"}
                   /\ pc[t] = "ret" => result[t].tag = "err" /\ before[t] = Some(Storage)

\* a record that passes every field rule has been rejected by the
\* commitment check, after a record issued from the prevout 1 was accepted
\* and stored
CommitmentIffDerivedIdWitness ==
    \E t \in Threads :
       /\ pc[t] = "ret" /\ result[t] = Err("failed verifying issuance commitment")
       /\ \A c \in FieldRules : Check(c, Unwrap(asset[t])) = "ok"
       /\ \E p \in Paths :
             /\ IsSome(files[p]) /\ from_str_ok(Unwrap(files[p]))
             /\ from_str(Unwrap(files[p])).issuance_prevout = 1

\* C16: in a Registry without a chain collaborator no write call runs the
\* on-chain stage or fails with its error; a record that passes the local
\* checks goes on to the domain link, the persisting steps are reached with
\* exactly the local checks and the link run, and the only verification
\* error left for such a record is that of the link.
ChainStageSkippedWithoutChain ==
    ~chain =>
       \A t \in Threads :
          HoldsLock(t) =>
             LET a == Unwrap(asset[t])
                 local_ok == \A c \in FieldRules \cup {"commitment", "fields"} :
                                Check(c, a) = "ok"
             IN /\ pc[t] # "chain"
                /\ \A i \in 1..Len(ran[t]) : ran[t][i] # "chain"
                /\ result[t].ctx # "failed verifying on-chain issuance"
                /\ (local_ok /\ pc[t] # "verify") =>
                      \/ pc[t] = "link" /\ ran[t] = VerifyChecks
                      \/ pc[t] # "link" /\ ran[t] = VerifyChecks \o <<"link">>
                /\ pc[t] \in {"mkdir", "create", "write_all", "hook"} =>
                      local_ok /\ ran[t] = VerifyChecks \o <<"link">>
                /\ (local_ok /\ pc[t] = "ret" /\ result[t].ctx \in VerifyErrors) =>
                      result[t] = Err("failed verifying linked entity")

\* without a chain collaborator a write has persisted its record and
\* returns Ok
ChainStageSkippedWithoutChainWitness ==
    \E t \in Threads :
       /\ ~chain /\ pc[t] = "ret" /\ result[t] = Ok
       /\ files[PathOf(Unwrap(asset[t]).asset_id)] = Some(to_string(Unwrap(asset[t])))

\* C17: the ticker check passes a record without a ticker; it passes a
\* record with a ticker if and only if the ticker has 3 to 5 characters, each
\* an ASCII letter, '.' or '-'.
TickerRule ==
    (call.fn = "ticker" /\ call.done) =>
        LET tk == call.args[1]
            letters == (65..90) \cup (97..122)
        IN call.out = "ok" <=>
              \/ tk = None
              \/ /\ tk # None
                 /\ Len(tk[1]) \in {3, 4, 5}
                 /\ \A i \in 1..Len(tk[1]) : tk[1][i] \in letters \cup {45, 46}

\* a ticker of six letters has been rejected, as "invalid ticker"
TickerRuleWitness ==
    /\ call.fn = "ticker" /\ call.done
    /\ call.args[1] = Some(<<70, 70, 70, 70, 70, 70>>)
    /\ call.out = "invalid ticker"

LastSuccessfulWriterWins ==
    NoWriteRunning
        => \A id \in AssetIds :
              IsSome(persisted[PathOf(id)]) => files[PathOf(id)] = persisted[PathOf(id)]

\* C20: frame of write: from the moment a write call for asset id X holds the
\* lock until it returns, with Ok or with an error, the file of every other
\* asset id is as it was when the call began, also when that id lies in the
\* partition directory of X.
WriteFrame ==
    \A t \in Threads :
       HoldsLock(t)
          => \A y \in AssetIds \ {Unwrap(asset[t]).asset_id} :
                files[PathOf(y)] = Unwrap(before[t]).files[PathOf(y)]

\* a write call has stored the record of its id while the record file of
\* another id exists in the same partition directory
WriteFrameWitness ==
    \E t \in Threads :
       /\ pc[t] = "hook"
       /\ LET x == Unwrap(asset[t]).asset_id
          IN /\ files[PathOf(x)] = Some(to_string(Unwrap(asset[t])))
             /\ Unwrap(before[t]).files[PathOf(x)] # files[PathOf(x)]
             /\ \E y \in AssetIds \ {x} :
                   /\ SubDir(y) = SubDir(x)
                   /\ IsSome(files[PathOf(y)])
====
